---- MODULE Spec2Model ----
(***************************************************************************)
(* Model of vulkano's GPU future graph: the fence-signal node              *)
(* (sync/future/fence_signal.rs), the join combinator                      *)
(* (sync/future/join.rs) and the GpuFuture contract (sync/future/mod.rs).  *)
(*                                                                         *)
(* One fence-signal node is shared by the threads of Threads.  Its         *)
(* predecessor is a leaf future or a JoinFuture of two leaf futures.  The  *)
(* device is a log of the submits it was handed, each accepted or          *)
(* rejected, and a fence that it signals after an accepted submission      *)
(* that carries the fence.                                                 *)
(***************************************************************************)
EXTENDS Integers, Sequences, FiniteSets, TLC

\* ---------------------------------------------------------------- bounds
\* Longest device log explored: calls that would submit past it are not made.
MaxLog == 6

\* The threads that hold a clone of the Arc around the node.
Threads == {"t1", "t2"}

\* The queues of the device.
Queues == {"Q1", "Q2"}

\* Option::None of queue().
None == "None"

\* ---------------------------------------------------------------- accumulators
\* The variants of SubmitAnyBuilder.
Variants == {"Empty", "SemaphoresWait", "CommandBuffer", "QueuePresent"}

\* A SubmitAnyBuilder value: its variant, the leaves whose work (semaphores,
\* command buffers, swapchain images) it holds and whether a fence is already
\* set on it.
Acc(kind, src, has_fence) == [kind |-> kind, src |-> src, has_fence |-> has_fence]

EmptyAcc == Acc("Empty", {}, FALSE)

\* Results of build_submission: Ok(acc), Err(_) or a panic, with the submits
\* handed to the device on the way.
Ok(acc, subs) == [tag |-> "Ok", acc |-> acc, subs |-> subs]

Err(subs) == [tag |-> "Err", acc |-> EmptyAcc, subs |-> subs]

Panic(subs) == [tag |-> "Panic", acc |-> EmptyAcc, subs |-> subs]

\* One submit(&queue) call as the device sees it. by: the node whose code made
\* the call; what: the builder type submitted; src: the leaves whose work it
\* holds; fence: it carries the fence-signal node's fence; has_fence: it
\* carries a fence set by someone else; ok: the device accepted it.
Submit(by, what, queue, src, fence, has_fence, ok) ==
    [by |-> by, what |-> what, queue |-> queue, src |-> src, fence |-> fence,
     has_fence |-> has_fence, ok |-> ok]

\* ---------------------------------------------------------------- leaves
\* A leaf future, known through the GpuFuture trait only: the variant its
\* build_submission returns (the trait lets it be called several times), its
\* queue(), its queue_change_allowed() and, for a CommandBuffer, whether the
\* builder already has a fence.
Leaf(kind, queue, qca, has_fence) ==
    [type |-> "leaf", kind |-> kind, queue |-> queue, qca |-> qca, has_fence |-> has_fence]

\* The leaves explored: every variant on Q1 without queue change and on Q2
\* with queue change allowed, the identity future (no queue), and a
\* CommandBuffer whose builder already has a fence.
Leaves ==
    {Leaf(k, "Q1", FALSE, FALSE) : k \in Variants}
    \cup {Leaf(k, "Q2", TRUE, FALSE) : k \in Variants}
    \cup {Leaf("Empty", None, TRUE, FALSE), Leaf("CommandBuffer", "Q1", FALSE, TRUE)}

\* GpuFuture::build_submission of leaf number id; err: the leaf reports an error.
LeafBuildSubmission(l, id, err) ==
    IF err THEN Err(<<>>)
    ELSE Ok(Acc(l.kind, IF l.kind = "Empty" THEN {} ELSE {id}, l.has_fence), <<>>)

\* ---------------------------------------------------------------- join
\* JoinFuture { first, second }.
JoinFuture(first, second) == [type |-> "join", first |-> first, second |-> second]

\* The asserts of join(): same device is taken for granted (one device);
\* when neither child allows a queue change both report the same queue.
JoinAsserts(first, second) ==
    (~first.qca /\ ~second.qca) => (first.queue # None /\ second.queue # None
                                    /\ first.queue = second.queue)

\* A queue_change_allowed that is true as soon as one child allows a change.
JoinQueueChangeAllowed_Or(j) == j.first.qca \/ j.second.qca

\* JoinFuture::queue_change_allowed.
JoinQueueChangeAllowed(j) == j.first.qca /\ j.second.qca

\* JoinFuture::queue.
JoinQueue(j) ==
    LET q1 == j.first.queue
        q2 == j.second.queue
    IN  IF q1 # None /\ q2 # None
        THEN IF q1 = q2 THEN q1
             ELSE IF j.first.qca THEN q2
             ELSE IF j.second.qca THEN q1
             ELSE None
        ELSE IF q1 # None THEN q1
        ELSE IF q2 # None THEN q2
        ELSE None

\* An eager submit that goes to the queue the child is not on.
JoinSubmit_WrongQueue(child, acc, ok) ==
    Submit("join", IF acc.kind = "QueuePresent" THEN "present" ELSE "cb",
           IF child.queue = "Q1" THEN "Q2" ELSE "Q1", acc.src, FALSE, acc.has_fence, ok)

\* An eager submit inside JoinFuture::build_submission: child.queue().clone().unwrap()
\* panics on None, submit() asks the device.
JoinSubmit(child, acc, ok) ==
    Submit("join", IF acc.kind = "QueuePresent" THEN "present" ELSE "cb",
           child.queue, acc.src, FALSE, acc.has_fence, ok)

\* A merge that keeps the first child's accumulator and drops the second's.
JoinBuildSubmission_DropsSibling(j, e1, e2, d) ==
    LET r1 == LeafBuildSubmission(j.first, 1, e1)
        r2 == LeafBuildSubmission(j.second, 2, e2)
    IN  IF r1.tag = "Err" \/ r2.tag = "Err" THEN Err(<<>>)
        ELSE Ok(r1.acc, <<>>)

\* A build_submission that goes on after a rejected submit.
JoinBuildSubmission_IgnoresErrors(j, e1, e2, d) ==
    LET r1 == LeafBuildSubmission(j.first, 1, e1)
        r2 == LeafBuildSubmission(j.second, 2, e2)
    IN  IF r1.tag = "Err" \/ r2.tag = "Err" THEN Err(<<>>)
        ELSE IF r1.acc.kind = "QueuePresent" /\ r2.acc.kind = "QueuePresent"
            THEN Ok(EmptyAcc, <<JoinSubmit(j.first, r1.acc, d[1]),
                                JoinSubmit(j.second, r2.acc, d[2])>>)
        ELSE Ok(r1.acc, <<>>)

\* JoinFuture::build_submission. e1, e2: the children report an error;
\* d: the device's answers to the submits, in order.
JoinBuildSubmission(j, e1, e2, d) ==
    LET r1 == LeafBuildSubmission(j.first, 1, e1)
        r2 == LeafBuildSubmission(j.second, 2, e2)
        a == r1.acc
        b == r2.acc
        subA == JoinSubmit(j.first, a, d[1])
        subB1 == JoinSubmit(j.second, b, d[1])
        subB2 == JoinSubmit(j.second, b, d[2])
    IN  IF r1.tag = "Err" THEN Err(<<>>)
        ELSE IF r2.tag = "Err" THEN Err(<<>>)
        ELSE IF a.kind = "Empty" THEN Ok(b, <<>>)
        ELSE IF b.kind = "Empty" THEN Ok(a, <<>>)
        ELSE IF a.kind = "SemaphoresWait" /\ b.kind = "SemaphoresWait"
            THEN Ok(Acc("SemaphoresWait", a.src \cup b.src, FALSE), <<>>)
        ELSE IF a.kind = "SemaphoresWait" /\ b.kind \in {"CommandBuffer", "QueuePresent"}
            THEN IF j.second.queue = None THEN Panic(<<>>)
                 ELSE IF ~subB1.ok THEN Err(<<subB1>>)
                 ELSE Ok(a, <<subB1>>)
        ELSE IF a.kind \in {"CommandBuffer", "QueuePresent"} /\ b.kind = "SemaphoresWait"
            THEN IF j.first.queue = None THEN Panic(<<>>)
                 ELSE IF ~subA.ok THEN Err(<<subA>>)
                 ELSE Ok(b, <<subA>>)
        ELSE IF a.kind = "CommandBuffer" /\ b.kind = "CommandBuffer"
            THEN Ok(Acc("CommandBuffer", a.src \cup b.src, a.has_fence \/ b.has_fence), <<>>)
        ELSE IF a.kind = "QueuePresent" /\ b.kind = "QueuePresent"
            THEN IF j.first.queue = None THEN Panic(<<>>)
                 ELSE IF ~subA.ok THEN Err(<<subA>>)
                 ELSE IF j.second.queue = None THEN Panic(<<subA>>)
                 ELSE IF ~subB2.ok THEN Err(<<subA, subB2>>)
                 ELSE Ok(EmptyAcc, <<subA, subB2>>)
        ELSE Panic(<<>>)

\* ---------------------------------------------------------------- access checks
\* The fields of PipelineStages and of AccessFlagBits explored (the structs
\* have 17 bool fields each, all treated alike).
StageFields == {"top_of_pipe", "transfer"}

AccessFields == {"shader_read", "transfer_write"}

\* An operation that returns its left operand.
BitOr_KeepsLeft(a, b) == a

\* && on every field instead of ||.
BitOr_And(a, b) == [f \in DOMAIN a |-> a[f] /\ b[f]]

\* PipelineStages | PipelineStages and AccessFlagBits | AccessFlagBits: || on
\* every field.
BitOr(a, b) == [f \in DOMAIN a |-> a[f] \/ b[f]]

\* Result<Option<(PipelineStages, AccessFlagBits)>, ()>: Err(()), Ok(None)
\* and Ok(Some((stages, access))).
AccessErr == [ok |-> FALSE, some |-> FALSE]

AccessOkNone == [ok |-> TRUE, some |-> FALSE]

AccessOkSome(stages, access) ==
    [ok |-> TRUE, some |-> TRUE, stages |-> stages, access |-> access]

\* The answers a leaf gives to check_buffer_access and check_image_access.
LeafAnswers ==
    {AccessErr, AccessOkNone,
     AccessOkSome([f \in StageFields |-> f = "top_of_pipe"],
                  [f \in AccessFields |-> f = "shader_read"]),
     AccessOkSome([f \in StageFields |-> f = "transfer"],
                  [f \in AccessFields |-> f = "transfer_write"])}

\* An access check without the debug_assert!.
JoinCheckAccess_NoAssert(first, second, exclusive, debug) ==
    [panic |-> FALSE,
     val |-> IF first.ok /\ ~second.ok THEN first
             ELSE IF ~first.ok /\ second.ok THEN second
             ELSE IF ~first.ok /\ ~second.ok THEN AccessErr
             ELSE IF ~first.some /\ ~second.some THEN AccessOkNone
             ELSE IF first.some /\ ~second.some THEN first
             ELSE IF ~first.some /\ second.some THEN second
             ELSE AccessOkSome(BitOr(first.stages, second.stages),
                               BitOr(first.access, second.access))]

\* JoinFuture::check_buffer_access and check_image_access (the same code) on
\* the children's answers; the debug_assert! panics in a debug build.
JoinCheckAccess(first, second, exclusive, debug) ==
    IF debug /\ exclusive /\ first.ok /\ second.ok THEN [panic |-> TRUE, val |-> AccessErr]
    ELSE [panic |-> FALSE,
          val |-> IF first.ok /\ ~second.ok THEN first
                  ELSE IF ~first.ok /\ second.ok THEN second
                  ELSE IF ~first.ok /\ ~second.ok THEN AccessErr
                  ELSE IF ~first.some /\ ~second.some THEN AccessOkNone
                  ELSE IF first.some /\ ~second.some THEN first
                  ELSE IF ~first.some /\ second.some THEN second
                  ELSE AccessOkSome(BitOr(first.stages, second.stages),
                                    BitOr(first.access, second.access))]

\* ---------------------------------------------------------------- any future
\* The futures a fence-signal node is built on.
Futures ==
    Leaves \cup {JoinFuture(f, s) : <<f, s>> \in {p \in Leaves \X Leaves : JoinAsserts(p[1], p[2])}}

\* A queue() that answers with the first child's queue for a join.
QueueOf_FirstChild(f) == IF f.type = "join" THEN f.first.queue ELSE f.queue

\* F::queue.
QueueOf(f) == IF f.type = "join" THEN JoinQueue(f) ELSE f.queue

\* F::queue_change_allowed.
QueueChangeAllowedOf(f) == IF f.type = "join" THEN JoinQueueChangeAllowed(f) ELSE f.qca

\* F::build_submission.
BuildSubmissionOf(f, e1, e2, d) ==
    IF f.type = "join" THEN JoinBuildSubmission(f, e1, e2, d)
    ELSE LeafBuildSubmission(f, 1, e1)

\* F::check_buffer_access / check_image_access, a1 and a2 the leaves' answers.
CheckAccessOf(f, a1, a2, exclusive, debug) ==
    IF f.type = "join" THEN JoinCheckAccess(a1, a2, exclusive, debug)
    ELSE [panic |-> FALSE, val |-> a1]

\* ---------------------------------------------------------------- fence-signal node
\* The fence of the node, made by Fence::new in then_signal_fence.
TheFence == "fence"

\* enum FenceSignalFutureState<F>.
Pending(prev, fence) == [tag |-> "Pending", prev |-> prev, fence |-> fence]

PartiallyFlushed(prev, fence) == [tag |-> "PartiallyFlushed", prev |-> prev, fence |-> fence]

Flushed(prev, fence) == [tag |-> "Flushed", prev |-> prev, fence |-> fence]

Cleaned == [tag |-> "Cleaned"]

Poisonned == [tag |-> "Poisonned"]

\* Nothing moved out of the Mutex.
NoState == [tag |-> "None"]

\* FenceSignalFutureState::get_prev.
get_prev(st) ==
    IF st.tag \in {"Pending", "PartiallyFlushed", "Flushed"}
    THEN [some |-> TRUE, prev |-> st.prev]
    ELSE [some |-> FALSE]

\* The futures then_signal_fence accepts: assert!(future.queue().is_some()).
FenceFutures == {f \in Futures : QueueOf(f) # None}

\* A submit(&queue) made by flush_impl itself.
FenceSubmit(what, queue, src, fence, has_fence, ok) ==
    Submit("fence_signal", what, queue, src, fence, has_fence, ok)

\* Outcome of the match on the accumulator in flush_impl: Ok, Err(Partial),
\* Err(Full) or a panic, with the submits made.
Outcome(result, subs) == [result |-> result, subs |-> subs]

\* SubmitAnyBuilder::Empty arm: a new builder with the fence, submitted.
FlushEmpty(partially_flushed, fence, queue, acc, debug, ok1, ok2) ==
    IF debug /\ partially_flushed THEN Outcome("Panic", <<>>)
    ELSE Outcome(IF ok1 THEN "Ok" ELSE "Full",
                 <<FenceSubmit("cb", queue, {}, TRUE, FALSE, ok1)>>)

\* SubmitAnyBuilder::SemaphoresWait arm: sem.into() is submitted as it is.
FlushSemaphoresWait(partially_flushed, fence, queue, acc, debug, ok1, ok2) ==
    IF debug /\ partially_flushed THEN Outcome("Panic", <<>>)
    ELSE Outcome(IF ok1 THEN "Ok" ELSE "Full",
                 <<FenceSubmit("cb", queue, acc.src, FALSE, FALSE, ok1)>>)

\* A CommandBuffer arm without the assert on has_fence.
FlushCommandBuffer_NoAssert(partially_flushed, fence, queue, acc, debug, ok1, ok2) ==
    Outcome(IF ok1 THEN "Ok" ELSE "Full",
            <<FenceSubmit("cb", queue, acc.src, TRUE, acc.has_fence, ok1)>>)

\* SubmitAnyBuilder::CommandBuffer arm: assert!(!cb_builder.has_fence()), then
\* the fence is set on the builder and it is submitted.
FlushCommandBuffer(partially_flushed, fence, queue, acc, debug, ok1, ok2) ==
    IF debug /\ partially_flushed THEN Outcome("Panic", <<>>)
    ELSE IF acc.has_fence THEN Outcome("Panic", <<>>)
    ELSE Outcome(IF ok1 THEN "Ok" ELSE "Full",
                 <<FenceSubmit("cb", queue, acc.src, TRUE, acc.has_fence, ok1)>>)

\* A QueuePresent arm that does not look at partially_flushed: the present
\* is submitted on every flush.
FlushQueuePresent_AlwaysPresents(partially_flushed, fence, queue, acc, debug, ok1, ok2) ==
    LET present == FenceSubmit("present", queue, acc.src, FALSE, FALSE, ok1)
    IN  IF ~ok1 THEN Outcome("Full", <<present>>)
        ELSE Outcome(IF ok2 THEN "Ok" ELSE "Partial",
                     <<present, FenceSubmit("cb", queue, {}, TRUE, FALSE, ok2)>>)

\* SubmitAnyBuilder::QueuePresent arm: the present unless partially flushed,
\* then a new builder with the fence.
FlushQueuePresent(partially_flushed, fence, queue, acc, debug, ok1, ok2) ==
    LET present == FenceSubmit("present", queue, acc.src, FALSE, FALSE, ok1)
    IN  IF partially_flushed
        THEN Outcome(IF ok1 THEN "Ok" ELSE "Partial",
                     <<FenceSubmit("cb", queue, {}, TRUE, FALSE, ok1)>>)
        ELSE IF ~ok1 THEN Outcome("Full", <<present>>)
        ELSE Outcome(IF ok2 THEN "Ok" ELSE "Partial",
                     <<present, FenceSubmit("cb", queue, {}, TRUE, FALSE, ok2)>>)

\* The match on previous.build_submission()'s accumulator.
FlushDispatch(partially_flushed, fence, queue, acc, debug, ok1, ok2) ==
    CASE acc.kind = "Empty" ->
            FlushEmpty(partially_flushed, fence, queue, acc, debug, ok1, ok2)
      [] acc.kind = "SemaphoresWait" ->
            FlushSemaphoresWait(partially_flushed, fence, queue, acc, debug, ok1, ok2)
      [] acc.kind = "CommandBuffer" ->
            FlushCommandBuffer(partially_flushed, fence, queue, acc, debug, ok1, ok2)
      [] acc.kind = "QueuePresent" ->
            FlushQueuePresent(partially_flushed, fence, queue, acc, debug, ok1, ok2)

\* A restore that maps a partial failure to Pending, like a full one.
RestoreState_PartialAsFull(result, previous, fence) ==
    CASE result = "Ok" -> Flushed(previous, fence)
      [] result \in {"Partial", "Full"} -> Pending(previous, fence)
      [] result = "Panic" -> Poisonned

\* A restore that puts Pending back after a success too.
RestoreState_ForgetsFlush(result, previous, fence) ==
    CASE result \in {"Ok", "Full"} -> Pending(previous, fence)
      [] result = "Partial" -> PartiallyFlushed(previous, fence)
      [] result = "Panic" -> Poisonned

\* "Restore the state before returning": the state that follows each outcome.
RestoreState(result, previous, fence) ==
    CASE result = "Ok" -> Flushed(previous, fence)
      [] result = "Partial" -> PartiallyFlushed(previous, fence)
      [] result = "Full" -> Pending(previous, fence)
      [] result = "Panic" -> Poisonned

\* A flush_impl that does not remember that it was flushed: a Flushed node
\* submits its fence again.
AlreadyFlushed_Resubmits(other) ==
    [state |-> other, ret |-> "Ok",
     subs |-> IF other.tag = "Flushed"
              THEN <<FenceSubmit("cb", QueueOf(other.prev), {}, TRUE, FALSE, TRUE)>>
              ELSE <<>>]

\* What flush_impl does to a state that is neither Pending nor
\* PartiallyFlushed: it is put back.
AlreadyFlushed(other) == [state |-> other, ret |-> "Ok", subs |-> <<>>]

\* What the try! on previous.build_submission() leaves behind when it
\* returns early: the state still holds the Poisonned put there by
\* mem::replace, and prev and fence, moved out of it, are dropped.
EarlyReturn(bs) == [state |-> Poisonned, ret |-> bs.tag, subs |-> bs.subs]

\* The device's answers to the submits of one call, in order: it accepts
\* them all (reject = 0) or rejects submit number reject, after which the
\* call makes no other.
Answers(reject) == [i \in 1..3 |-> i # reject]

\* The inputs of one flush_impl: e1, e2, errors reported by the leaves'
\* build_submission (the second leaf is not asked after the first failed);
\* d, the device's answers; debug, whether the build has debug assertions.
Input(e1, e2, reject, debug) ==
    [e1 |-> e1, e2 |-> e2, d |-> Answers(reject), debug |-> debug]

\* The inputs flush_impl reads in state st: none when there is nothing to
\* flush; one leaf and at most two submits (present, fence) when the
\* predecessor is a leaf; the debug assertions when partially flushed.
InputsFor(st) ==
    IF st.tag \notin {"Pending", "PartiallyFlushed"} THEN {Input(FALSE, FALSE, 0, FALSE)}
    ELSE {Input(e[1], e[2], reject, debug) :
            e \in IF st.prev.type = "join"
                  THEN {<<FALSE, FALSE>>, <<TRUE, FALSE>>, <<FALSE, TRUE>>}
                  ELSE {<<FALSE, FALSE>>, <<TRUE, FALSE>>},
            reject \in IF st.prev.type = "join" THEN 0..3 ELSE 0..2,
            debug \in IF st.tag = "PartiallyFlushed" THEN BOOLEAN ELSE {FALSE}}

\* FenceSignalFuture::flush_impl on state st: the new state, what it returns
\* ("Ok", "Err" or "Panic") and the submits it made.
flush_impl(st, in) ==
    IF st.tag \notin {"Pending", "PartiallyFlushed"} THEN AlreadyFlushed(st)
    ELSE LET previous == st.prev
             fence == st.fence
             partially_flushed == (st.tag = "PartiallyFlushed")
             queue == QueueOf(previous)
             bs == BuildSubmissionOf(previous, in.e1, in.e2, in.d)
             n == Len(bs.subs)
             out == FlushDispatch(partially_flushed, fence, queue, bs.acc, in.debug,
                                  in.d[n + 1], in.d[IF n + 2 > 3 THEN 3 ELSE n + 2])
         IN  IF queue = None THEN [state |-> Poisonned, ret |-> "Panic", subs |-> <<>>]
             ELSE IF bs.tag # "Ok" THEN EarlyReturn(bs)
             ELSE [state |-> RestoreState(out.result, previous, fence),
                   ret |-> CASE out.result = "Ok" -> "Ok"
                             [] out.result \in {"Partial", "Full"} -> "Err"
                             [] out.result = "Panic" -> "Panic",
                   subs |-> bs.subs \o out.subs]

\* ---------------------------------------------------------------- state
VARIABLES
    state,         \* FenceSignalFuture::state, the value inside the Mutex
    owner,         \* the thread that holds the Mutex, or None
    poisoned,      \* a thread panicked while holding the Mutex
    alive,         \* the node has not been dropped
    held,          \* the state Drop moved out with mem::replace, or NoState
    pc,            \* where each thread is
    log,           \* the submits handed to the device, in order
    signalled,     \* the device has signalled the node's fence
    prev_finished, \* signal_finished was called on the predecessor
    ev,            \* the last call that returned or panicked, and its result
    future         \* the future then_signal_fence was given

vars == <<state, owner, poisoned, alive, held, pc, log, signalled, prev_finished, ev, future>>

\* A call's record: the operation, the state's tag when the call took the
\* lock, the result and the number of submits the call made.
Event(op, from, ret, n) ==
    [op |-> op, from |-> from, ret |-> ret, n |-> n, val |-> AccessErr]

\* self.state.lock().unwrap() succeeds for thread t: the node exists, the
\* Mutex is free and not poisoned.
CanLock(t) == alive /\ pc[t] = "idle" /\ owner = None /\ ~poisoned

\* Some thread can make a call that takes the lock. Which thread makes a call
\* that returns with the lock released changes nothing.
SomeCanLock == \E t \in Threads : CanLock(t)

\* then_signal_fence(future): Pending(future, fence) behind a fresh Mutex.
Init ==
    /\ future \in FenceFutures
    /\ state = Pending(future, TheFence)
    /\ owner = None
    /\ poisoned = FALSE
    /\ alive = TRUE
    /\ held = NoState
    /\ pc = [t \in Threads |-> "idle"]
    /\ log = <<>>
    /\ signalled = FALSE
    /\ prev_finished = FALSE
    /\ ev = Event("then_signal_fence", "Pending", "Ok", 0)

\* FenceSignalFuture::flush, also through an Arc.
Flush ==
    /\ SomeCanLock
    /\ \E in \in InputsFor(state) :
        \E r \in {flush_impl(state, in)} :
            /\ Len(log) + Len(r.subs) <= MaxLog
            /\ state' = r.state
            /\ log' = log \o r.subs
            /\ poisoned' = (r.ret = "Panic")
            /\ ev' = Event("flush", state.tag, r.ret, Len(r.subs))
    /\ UNCHANGED <<owner, alive, held, pc, signalled, prev_finished, future>>

\* JoinFuture::flush on a join of two clones of the Arc around the node, up
\* to the end of try!(self.first.flush()).
JoinFlushFirst(t) ==
    /\ CanLock(t)
    /\ \E in \in InputsFor(state) :
        \E r \in {flush_impl(state, in)} :
            /\ Len(log) + Len(r.subs) <= MaxLog
            /\ state' = r.state
            /\ log' = log \o r.subs
            /\ poisoned' = (r.ret = "Panic")
            /\ pc' = [pc EXCEPT ![t] = IF r.ret = "Ok" THEN "join_flush_second" ELSE "idle"]
            /\ ev' = Event("join_flush", state.tag, IF r.ret = "Ok" THEN "First" ELSE r.ret,
                           Len(r.subs))
    /\ UNCHANGED <<owner, alive, held, signalled, prev_finished, future>>

\* JoinFuture::flush, try!(self.second.flush()) and the return.
JoinFlushSecond(t) ==
    /\ pc[t] = "join_flush_second"
    /\ owner = None
    /\ ~poisoned
    /\ \E in \in InputsFor(state) :
        \E r \in {flush_impl(state, in)} :
            /\ Len(log) + Len(r.subs) <= MaxLog
            /\ state' = r.state
            /\ log' = log \o r.subs
            /\ poisoned' = (r.ret = "Panic")
            /\ pc' = [pc EXCEPT ![t] = "idle"]
            /\ ev' = Event("join_flush", state.tag, r.ret, Len(r.subs))
    /\ UNCHANGED <<owner, alive, held, signalled, prev_finished, future>>

\* FenceSignalFuture::build_submission up to the wait: flush_impl, then the
\* match on the state. A Flushed node goes on to fence.wait with the lock held.
BuildSubmission(t) ==
    /\ CanLock(t)
    /\ \E in \in InputsFor(state) :
        \E r \in {flush_impl(state, in)} :
        LET unreachable == r.ret = "Ok" /\ r.state.tag \in {"Pending", "PartiallyFlushed"}
            waits == r.ret = "Ok" /\ r.state.tag = "Flushed"
        IN  /\ Len(log) + Len(r.subs) <= MaxLog
            /\ state' = r.state
            /\ log' = log \o r.subs
            /\ poisoned' = (r.ret = "Panic" \/ unreachable)
            /\ owner' = IF waits THEN t ELSE None
            /\ pc' = [pc EXCEPT ![t] = IF waits THEN "bs_wait" ELSE "idle"]
            /\ ev' = Event("build_submission", state.tag,
                           CASE r.ret = "Panic" \/ unreachable -> "Panic"
                             [] r.ret = "Err" -> "Err"
                             [] waits -> "Waiting"
                             [] OTHER -> "OkEmpty",
                           Len(r.subs))
    /\ UNCHANGED <<alive, held, signalled, prev_finished, future>>

\* fence.wait(600 s) in build_submission returns Ok: Ok(Empty).
BuildSubmissionWaitOk(t) ==
    /\ pc[t] = "bs_wait"
    /\ signalled
    /\ pc' = [pc EXCEPT ![t] = "idle"]
    /\ owner' = None
    /\ ev' = Event("build_submission", state.tag, "OkEmpty", 0)
    /\ UNCHANGED <<state, poisoned, alive, held, log, signalled, prev_finished, future>>

\* fence.wait(600 s) in build_submission times out: try! returns the error.
BuildSubmissionWaitErr(t) ==
    /\ pc[t] = "bs_wait"
    /\ ~signalled
    /\ pc' = [pc EXCEPT ![t] = "idle"]
    /\ owner' = None
    /\ ev' = Event("build_submission", state.tag, "Err", 0)
    /\ UNCHANGED <<state, poisoned, alive, held, log, signalled, prev_finished, future>>

\* A cleanup_finished that does not ask the fence.
CleanupFinished_IgnoresFence ==
    /\ SomeCanLock
    /\ state' = IF state.tag = "Flushed" THEN Cleaned ELSE state
    /\ ev' = Event("cleanup_finished", state.tag, "Unit", 0)
    /\ UNCHANGED <<owner, poisoned, alive, held, pc, log, signalled, prev_finished, future>>

\* FenceSignalFuture::cleanup_finished_impl: Cleaned when Flushed and
\* fence.wait(0) is Ok.
CleanupFinished ==
    /\ SomeCanLock
    /\ state' = IF state.tag = "Flushed" /\ signalled THEN Cleaned ELSE state
    /\ ev' = Event("cleanup_finished", state.tag, "Unit", 0)
    /\ UNCHANGED <<owner, poisoned, alive, held, pc, log, signalled, prev_finished, future>>

\* FenceSignalFuture::signal_finished: passed on to the predecessor when
\* Flushed, nothing when Cleaned or Poisonned, unreachable!() otherwise.
SignalFinished ==
    /\ SomeCanLock
    /\ prev_finished' = (prev_finished \/ state.tag = "Flushed")
    /\ poisoned' = (state.tag \in {"Pending", "PartiallyFlushed"})
    /\ ev' = Event("signal_finished", state.tag,
                   IF state.tag \in {"Pending", "PartiallyFlushed"} THEN "Panic" ELSE "Unit", 0)
    /\ UNCHANGED <<state, owner, alive, held, pc, log, signalled, future>>

\* The inputs of one access check: the leaves' answers (one leaf when the
\* predecessor is a leaf, none when there is no predecessor), the exclusive
\* argument and, for an exclusive check on a join, whether the build has
\* debug assertions.
CheckInputsFor(st) ==
    LET previous == get_prev(st)
        join == previous.some /\ previous.prev.type = "join"
    IN  {[a1 |-> a1, a2 |-> a2, exclusive |-> x[1], debug |-> x[2]] :
            a1 \in IF previous.some THEN LeafAnswers ELSE {AccessErr},
            a2 \in IF join THEN LeafAnswers ELSE {AccessErr},
            x \in IF join THEN {<<FALSE, FALSE>>, <<TRUE, FALSE>>, <<TRUE, TRUE>>}
                  ELSE {<<FALSE, FALSE>>, <<TRUE, FALSE>>}}

\* What the predecessor held in st answers to the check with inputs c; no
\* answer (written as Err(())) when st holds no predecessor.
PreviousAnswer(st, c) ==
    IF st.tag \in {"Pending", "PartiallyFlushed", "Flushed"}
    THEN CheckAccessOf(st.prev, c.a1, c.a2, c.exclusive, c.debug)
    ELSE [panic |-> FALSE, val |-> AccessErr]

\* An access check that answers Err(()) without asking the predecessor.
CheckAccess_NoPredecessor ==
    /\ SomeCanLock
    /\ \E c \in CheckInputsFor(state) :
        /\ poisoned' = FALSE
        /\ ev' = [Event("check_access", state.tag, "Err", 0)
                  EXCEPT !.val = [val |-> AccessErr, answer |-> PreviousAnswer(state, c)]]
    /\ UNCHANGED <<state, owner, alive, held, pc, log, signalled, prev_finished, future>>

\* FenceSignalFuture::check_buffer_access and check_image_access: the
\* predecessor's answer, or Err(()) when get_prev is None. The record keeps
\* the value returned and the predecessor's answer.
CheckAccess ==
    /\ SomeCanLock
    /\ \E c \in CheckInputsFor(state) :
        \E r \in {IF get_prev(state).some
                   THEN CheckAccessOf(get_prev(state).prev, c.a1, c.a2, c.exclusive, c.debug)
                   ELSE [panic |-> FALSE, val |-> AccessErr]} :
            /\ poisoned' = r.panic
            /\ ev' = [Event("check_access", state.tag,
                             IF r.panic THEN "Panic" ELSE IF r.val.ok THEN "Ok" ELSE "Err", 0)
                      EXCEPT !.val = [val |-> r.val, answer |-> PreviousAnswer(state, c)]]
    /\ UNCHANGED <<state, owner, alive, held, pc, log, signalled, prev_finished, future>>

\* Drop for FenceSignalFuture, run by the thread that gives up the last
\* reference: a last flush_impl whose error is ignored, then the state is
\* replaced by Cleaned and a Flushed node waits for its fence.
Drop(t) ==
    /\ CanLock(t)
    /\ \A u \in Threads : pc[u] = "idle"
    /\ \E in \in InputsFor(state) :
        \E r \in {flush_impl(state, in)} :
        LET waits == r.ret # "Panic" /\ r.state.tag = "Flushed"
        IN  /\ Len(log) + Len(r.subs) <= MaxLog
            /\ log' = log \o r.subs
            /\ poisoned' = (r.ret = "Panic")
            /\ state' = IF r.ret = "Panic" THEN r.state ELSE Cleaned
            /\ held' = IF waits THEN r.state ELSE NoState
            /\ owner' = IF waits THEN t ELSE None
            /\ pc' = [pc EXCEPT ![t] = IF waits THEN "drop_wait" ELSE "dropped"]
            /\ ev' = Event("drop", state.tag,
                           CASE r.ret = "Panic" -> "Panic"
                             [] waits -> "Waiting"
                             [] OTHER -> "Unit",
                           Len(r.subs))
    /\ alive' = FALSE
    /\ UNCHANGED <<signalled, prev_finished, future>>

\* fence.wait(600 s) in Drop returns Ok: previous.signal_finished(), then
\* previous and fence are released.
DropWaitOk(t) ==
    /\ pc[t] = "drop_wait"
    /\ signalled
    /\ prev_finished' = TRUE
    /\ held' = NoState
    /\ owner' = None
    /\ pc' = [pc EXCEPT ![t] = "dropped"]
    /\ ev' = Event("drop", "Flushed", "Unit", 0)
    /\ UNCHANGED <<state, poisoned, alive, log, signalled, future>>

\* A Drop that calls previous.signal_finished() although the wait failed.
DropWaitErr_SignalsAnyway(t) ==
    /\ pc[t] = "drop_wait"
    /\ ~signalled
    /\ prev_finished' = TRUE
    /\ poisoned' = TRUE
    /\ held' = NoState
    /\ owner' = None
    /\ pc' = [pc EXCEPT ![t] = "dropped"]
    /\ ev' = Event("drop", "Flushed", "Panic", 0)
    /\ UNCHANGED <<state, alive, log, signalled, future>>

\* fence.wait(600 s) in Drop times out: unwrap() panics, and the unwinding
\* releases previous and fence.
DropWaitErr(t) ==
    /\ pc[t] = "drop_wait"
    /\ ~signalled
    /\ poisoned' = TRUE
    /\ held' = NoState
    /\ owner' = None
    /\ pc' = [pc EXCEPT ![t] = "dropped"]
    /\ ev' = Event("drop", "Flushed", "Panic", 0)
    /\ UNCHANGED <<state, alive, log, signalled, prev_finished, future>>

\* The device signals the fence of an accepted submission that carries it.
DeviceSignal ==
    /\ ~signalled
    /\ \E i \in 1..Len(log) : log[i].fence /\ log[i].ok
    /\ signalled' = TRUE
    /\ UNCHANGED <<state, owner, poisoned, alive, held, pc, log, prev_finished, ev, future>>

Next ==
    \/ Flush
    \/ \E t \in Threads : BuildSubmission(t)
    \/ \E t \in Threads : BuildSubmissionWaitOk(t)
    \/ \E t \in Threads : BuildSubmissionWaitErr(t)
    \/ CleanupFinished
    \/ SignalFinished
    \/ CheckAccess
    \/ \E t \in Threads : Drop(t)
    \/ \E t \in Threads : DropWaitOk(t)
    \/ \E t \in Threads : DropWaitErr(t)
    \/ DeviceSignal

Spec == Init /\ [][Next]_vars

\* The behaviours made of flush() calls alone, on the node and on a join of
\* two clones of it.
NextFlush ==
    \/ Flush
    \/ \E t \in Threads : JoinFlushFirst(t)
    \/ \E t \in Threads : JoinFlushSecond(t)

SpecFlush == Init /\ [][NextFlush]_vars

\* The behaviours of Spec on a device that does signal: a fence carried by
\* an accepted submission is not left unsignalled for ever. Nothing is
\* assumed of the callers, who may stop calling at any time.
SpecLive == Init /\ [][Next]_vars /\ WF_vars(DeviceSignal)

\* ---------------------------------------------------------------- a join on its own
\* Longest device log explored in the behaviours of a join on its own.
MaxJoinLog == 2

\* The devices.
Devices == {"D1", "D2"}

\* The leaves a join is built from: those of Leaves and leaves on Q2 that
\* do not allow a queue change.
JoinLeaves ==
    Leaves \cup {Leaf(k, "Q2", FALSE, FALSE) : k \in {"SemaphoresWait", "CommandBuffer"}}

\* A leaf with the device it belongs to (DeviceOwned::device).
OnDevice(l, dev) ==
    [type |-> "leaf", kind |-> l.kind, queue |-> l.queue, qca |-> l.qca,
     has_fence |-> l.has_fence, device |-> dev]

\* The two arguments of a call of join() that has not been made yet.
JoinArgs(first, second) == [type |-> "args", first |-> first, second |-> second]

\* A join() without its asserts.
join_Unchecked(first, second) == [ok |-> TRUE, future |-> JoinFuture(first, second)]

\* join(first, second): assert_eq! on the devices, the assert on the queues,
\* then the JoinFuture. A failed assert panics and nothing is built.
join(first, second) ==
    IF first.device # second.device THEN [ok |-> FALSE, future |-> JoinArgs(first, second)]
    ELSE IF ~JoinAsserts(first, second) THEN [ok |-> FALSE, future |-> JoinArgs(first, second)]
    ELSE [ok |-> TRUE, future |-> JoinFuture(first, second)]

\* Two futures about to be joined, no fence-signal node: the first on D1.
InitJoin ==
    /\ future \in {JoinArgs(OnDevice(f, "D1"), OnDevice(s, dev)) :
                        f \in JoinLeaves, s \in JoinLeaves, dev \in Devices}
    /\ state = NoState
    /\ owner = None
    /\ poisoned = FALSE
    /\ alive = FALSE
    /\ held = NoState
    /\ pc = [t \in Threads |-> "idle"]
    /\ log = <<>>
    /\ signalled = FALSE
    /\ prev_finished = FALSE
    /\ ev = Event("none", "None", "Ok", 0)

\* A call of join() on the two futures.
CallJoin ==
    /\ future.type = "args"
    /\ ev.op = "none"
    /\ \E r \in {join(future.first, future.second)} :
        /\ future' = r.future
        /\ ev' = Event("join", "None", IF r.ok THEN "Ok" ELSE "Panic", 0)
    /\ UNCHANGED <<state, owner, poisoned, alive, held, pc, log, signalled, prev_finished>>

\* A call of JoinFuture::build_submission: the result and the children's
\* errors are recorded, the submits go to the device.
CallJoinBuildSubmission ==
    /\ future.type = "join"
    /\ \E e \in {<<FALSE, FALSE>>, <<TRUE, FALSE>>, <<FALSE, TRUE>>}, reject \in 0..2 :
        \E r \in {JoinBuildSubmission(future, e[1], e[2], Answers(reject))} :
            /\ Len(log) + Len(r.subs) <= MaxJoinLog
            /\ log' = log \o r.subs
            /\ ev' = [Event("join_build_submission", "None", r.tag, Len(r.subs))
                      EXCEPT !.val = [e1 |-> e[1], e2 |-> e[2], acc |-> r.acc]]
    /\ UNCHANGED <<state, owner, poisoned, alive, held, pc, signalled, prev_finished, future>>

\* A call of JoinFuture::queue and of JoinFuture::queue_change_allowed.
CallJoinQueue ==
    /\ future.type = "join"
    /\ ev' = [Event("join_queue", "None", "Ok", 0)
              EXCEPT !.val = [queue |-> JoinQueue(future),
                              qca |-> JoinQueueChangeAllowed(future)]]
    /\ UNCHANGED <<state, owner, poisoned, alive, held, pc, log, signalled, prev_finished, future>>

\* A call of JoinFuture::check_buffer_access or check_image_access: the
\* children's answers, the arguments and the result are recorded.
CallJoinCheckAccess ==
    /\ future.type = "join"
    /\ \E a1 \in LeafAnswers, a2 \in LeafAnswers,
          x \in {<<FALSE, FALSE>>, <<FALSE, TRUE>>, <<TRUE, FALSE>>, <<TRUE, TRUE>>} :
        \E r \in {JoinCheckAccess(a1, a2, x[1], x[2])} :
            ev' = [Event("join_check_access", "None",
                         IF r.panic THEN "Panic" ELSE IF r.val.ok THEN "Ok" ELSE "Err", 0)
                   EXCEPT !.val = [first |-> a1, second |-> a2, exclusive |-> x[1],
                                   debug |-> x[2], val |-> r.val]]
    /\ UNCHANGED <<state, owner, poisoned, alive, held, pc, log, signalled, prev_finished, future>>

NextJoin ==
    \/ CallJoin
    \/ CallJoinBuildSubmission
    \/ CallJoinQueue
    \/ CallJoinCheckAccess

SpecJoin == InitJoin /\ [][NextJoin]_vars

\* ---------------------------------------------------------------- callers that find the Mutex held
\* cleanup_finished on a clone while another thread holds the Mutex:
\* self.state.lock() in cleanup_finished_impl does not return.
CleanupFinishedBlocks(t) ==
    /\ alive
    /\ pc[t] = "idle"
    /\ owner # None
    /\ owner # t
    /\ pc' = [pc EXCEPT ![t] = "cleanup_lock"]
    /\ UNCHANGED <<state, owner, poisoned, alive, held, log, signalled, prev_finished, ev, future>>

\* The Mutex was released: lock() returns, unwrap() panics on a poisoned
\* Mutex, otherwise the rest of cleanup_finished_impl runs.
CleanupFinishedLocks(t) ==
    /\ pc[t] = "cleanup_lock"
    /\ owner = None
    /\ pc' = [pc EXCEPT ![t] = "idle"]
    /\ state' = IF ~poisoned /\ state.tag = "Flushed" /\ signalled THEN Cleaned ELSE state
    /\ ev' = Event("cleanup_finished", state.tag, IF poisoned THEN "Panic" ELSE "Unit", 0)
    /\ UNCHANGED <<owner, poisoned, alive, held, log, signalled, prev_finished, future>>

\* The behaviours of the threads that share the node through clones of the
\* Arc: flush, build_submission and cleanup_finished, with the callers that
\* wait for the Mutex.
NextShared ==
    \/ Flush
    \/ \E t \in Threads : BuildSubmission(t)
    \/ \E t \in Threads : BuildSubmissionWaitOk(t)
    \/ \E t \in Threads : BuildSubmissionWaitErr(t)
    \/ CleanupFinished
    \/ \E t \in Threads : CleanupFinishedBlocks(t)
    \/ \E t \in Threads : CleanupFinishedLocks(t)
    \/ DeviceSignal

SpecShared == Init /\ [][NextShared]_vars

\* ---------------------------------------------------------------- building the node
\* The identity future: no work, queue() = None, queue_change_allowed() = true.
Identity == Leaf("Empty", None, TRUE, FALSE)

\* then_signal_fence(future): assert!(future.queue().is_some()), then a
\* Pending node with a new fence. A failed assert panics and builds nothing.
then_signal_fence(f) ==
    IF QueueOf(f) = None THEN [ok |-> FALSE, state |-> NoState]
    ELSE [ok |-> TRUE, state |-> Pending(f, TheFence)]

\* A queue() that passes on the queue of the predecessor the node holds.
FenceSignalQueue_OfPrevious(st) ==
    IF get_prev(st).some THEN QueueOf(get_prev(st).prev) ELSE None

\* FenceSignalFuture::queue: None in every state.
FenceSignalQueue(st) == None

\* FenceSignalFuture::queue_change_allowed: true in every state.
FenceSignalQueueChangeAllowed(st) == TRUE

\* A fence-signal node seen as the predecessor of another future: through
\* an Arc its build_submission gives nothing but Empty.
FenceSignalAsFuture(st) ==
    Leaf("Empty", FenceSignalQueue(st), FenceSignalQueueChangeAllowed(st), FALSE)

\* GpuFuture::then_execute_same_queue: self.queue().unwrap() panics on None.
then_execute_same_queue(f) == [ok |-> QueueOf(f) # None]

\* A future, and no fence-signal node yet.
InitBuild ==
    /\ future \in Futures
    /\ state = NoState
    /\ owner = None
    /\ poisoned = FALSE
    /\ alive = FALSE
    /\ held = NoState
    /\ pc = [t \in Threads |-> "idle"]
    /\ log = <<>>
    /\ signalled = FALSE
    /\ prev_finished = FALSE
    /\ ev = Event("none", "None", "Ok", 0)

\* GpuFuture::then_signal_fence on the future.
ThenSignalFence ==
    /\ ev.op = "none"
    /\ \E r \in {then_signal_fence(future)} :
        /\ state' = r.state
        /\ alive' = r.ok
        /\ ev' = IF r.ok THEN Event("then_signal_fence", "Pending", "Ok", 0)
                 ELSE Event("then_signal_fence", "None", "Panic", 0)
    /\ UNCHANGED <<owner, poisoned, held, pc, log, signalled, prev_finished, future>>

\* GpuFuture::then_signal_fence_and_flush on the future, run by thread t:
\* then_signal_fence, f.flush() and, when the flush returns Err, the Drop of
\* f that the ? operator causes, up to its wait for the fence: a second
\* flush_impl, the state replaced by Cleaned. A panic of the flush finds the
\* Mutex poisoned in Drop.
ThenSignalFenceAndFlush(t) ==
    /\ ev.op = "none"
    /\ \E r \in {then_signal_fence(future)} :
        IF ~r.ok
        THEN /\ ev' = Event("then_signal_fence_and_flush", "None", "Panic", 0)
             /\ UNCHANGED <<state, owner, poisoned, alive, held, pc, log>>
        ELSE \E in1 \in InputsFor(r.state) : \E f1 \in {flush_impl(r.state, in1)} :
             IF f1.ret # "Err"
             THEN /\ state' = f1.state
                  /\ alive' = (f1.ret = "Ok")
                  /\ poisoned' = (f1.ret = "Panic")
                  /\ log' = f1.subs
                  /\ ev' = Event("then_signal_fence_and_flush", "Pending", f1.ret,
                                 Len(f1.subs))
                  /\ UNCHANGED <<owner, held, pc>>
             ELSE \E in2 \in InputsFor(f1.state) : \E f2 \in {flush_impl(f1.state, in2)} :
                  LET waits == f2.ret # "Panic" /\ f2.state.tag = "Flushed"
                  IN  /\ Len(f1.subs) + Len(f2.subs) <= MaxLog
                      /\ log' = f1.subs \o f2.subs
                      /\ poisoned' = (f2.ret = "Panic")
                      /\ state' = IF f2.ret = "Panic" THEN f2.state ELSE Cleaned
                      /\ held' = IF waits THEN f2.state ELSE NoState
                      /\ owner' = IF waits THEN t ELSE None
                      /\ pc' = [pc EXCEPT ![t] = IF waits THEN "flush_err_wait" ELSE "idle"]
                      /\ alive' = FALSE
                      /\ ev' = Event("then_signal_fence_and_flush", "Pending",
                                     CASE f2.ret = "Panic" -> "Panic"
                                       [] waits -> "Waiting"
                                       [] OTHER -> "Err",
                                     Len(f1.subs) + Len(f2.subs))
    /\ UNCHANGED <<signalled, prev_finished, future>>

\* The wait of that Drop returns Ok: previous.signal_finished(), and
\* then_signal_fence_and_flush returns the error of its flush.
ThenSignalFenceAndFlushWaitOk(t) ==
    /\ pc[t] = "flush_err_wait"
    /\ signalled
    /\ prev_finished' = TRUE
    /\ held' = NoState
    /\ owner' = None
    /\ pc' = [pc EXCEPT ![t] = "idle"]
    /\ ev' = Event("then_signal_fence_and_flush", "Flushed", "Err", 0)
    /\ UNCHANGED <<state, poisoned, alive, log, signalled, future>>

\* The wait of that Drop times out: unwrap() panics.
ThenSignalFenceAndFlushWaitErr(t) ==
    /\ pc[t] = "flush_err_wait"
    /\ ~signalled
    /\ poisoned' = TRUE
    /\ held' = NoState
    /\ owner' = None
    /\ pc' = [pc EXCEPT ![t] = "idle"]
    /\ ev' = Event("then_signal_fence_and_flush", "Flushed", "Panic", 0)
    /\ UNCHANGED <<state, alive, log, signalled, prev_finished, future>>

\* FenceSignalFuture::queue and queue_change_allowed on the node; neither
\* takes the lock.
CallQueue ==
    /\ alive
    /\ ev' = [Event("queue", state.tag, "Ok", 0)
              EXCEPT !.val = [queue |-> FenceSignalQueue(state),
                              qca |-> FenceSignalQueueChangeAllowed(state)]]
    /\ UNCHANGED <<state, owner, poisoned, alive, held, pc, log, signalled, prev_finished, future>>

\* then_execute_same_queue on a clone of the Arc around the node.
FenceThenExecuteSameQueue ==
    /\ alive
    /\ \E r \in {then_execute_same_queue(FenceSignalAsFuture(state))} :
        ev' = Event("then_execute_same_queue", state.tag, IF r.ok THEN "Ok" ELSE "Panic", 0)
    /\ UNCHANGED <<state, owner, poisoned, alive, held, pc, log, signalled, prev_finished, future>>

\* then_signal_fence on a clone of the Arc around the node.
FenceThenSignalFence ==
    /\ alive
    /\ \E r \in {then_signal_fence(FenceSignalAsFuture(state))} :
        ev' = Event("fence_then_signal_fence", state.tag, IF r.ok THEN "Ok" ELSE "Panic", 0)
    /\ UNCHANGED <<state, owner, poisoned, alive, held, pc, log, signalled, prev_finished, future>>

\* The behaviours that start with the construction of the node.
NextBuild ==
    \/ ThenSignalFence
    \/ \E t \in Threads : ThenSignalFenceAndFlush(t)
    \/ \E t \in Threads : ThenSignalFenceAndFlushWaitOk(t)
    \/ \E t \in Threads : ThenSignalFenceAndFlushWaitErr(t)
    \/ CallQueue
    \/ FenceThenExecuteSameQueue
    \/ FenceThenSignalFence
    \/ Flush
    \/ \E t \in Threads : BuildSubmission(t)
    \/ \E t \in Threads : BuildSubmissionWaitOk(t)
    \/ \E t \in Threads : BuildSubmissionWaitErr(t)
    \/ CleanupFinished
    \/ \E t \in Threads : Drop(t)
    \/ \E t \in Threads : DropWaitOk(t)
    \/ \E t \in Threads : DropWaitErr(t)
    \/ DeviceSignal

SpecBuild == InitBuild /\ [][NextBuild]_vars

\* ---------------------------------------------------------------- stages and access flags
\* PipelineStages::none() and AccessFlagBits::none(): every field false.
none(fields) == [f \in fields |-> FALSE]

\* The values of a struct of bools with the given fields.
Flags(fields) == [fields -> BOOLEAN]

\* Three values of PipelineStages, or three values of AccessFlagBits.
InitBits ==
    /\ state \in {[tag |-> "Flags", fields |-> fs, x |-> x, y |-> y, z |-> z] :
                    fs \in {StageFields}, x \in Flags(StageFields),
                    y \in Flags(StageFields), z \in Flags(StageFields)}
              \cup {[tag |-> "Flags", fields |-> fs, x |-> x, y |-> y, z |-> z] :
                    fs \in {AccessFields}, x \in Flags(AccessFields),
                    y \in Flags(AccessFields), z \in Flags(AccessFields)}
    /\ future = [type |-> "none"]
    /\ owner = None
    /\ poisoned = FALSE
    /\ alive = FALSE
    /\ held = NoState
    /\ pc = [t \in Threads |-> "idle"]
    /\ log = <<>>
    /\ signalled = FALSE
    /\ prev_finished = FALSE
    /\ ev = Event("none", "None", "Ok", 0)

\* The | operator applied to the three values, to themselves and to none().
ApplyBitOr ==
    /\ state.tag = "Flags"
    /\ ev' = [Event("bitor", "Flags", "Ok", 0)
              EXCEPT !.val = [xy |-> BitOr(state.x, state.y),
                              yx |-> BitOr(state.y, state.x),
                              xy_z |-> BitOr(BitOr(state.x, state.y), state.z),
                              x_yz |-> BitOr(state.x, BitOr(state.y, state.z)),
                              xx |-> BitOr(state.x, state.x),
                              x_none |-> BitOr(state.x, none(state.fields)),
                              none_x |-> BitOr(none(state.fields), state.x)]]
    /\ UNCHANGED <<state, owner, poisoned, alive, held, pc, log, signalled, prev_finished, future>>

NextBits == ApplyBitOr

SpecBits == InitBits /\ [][NextBits]_vars

\* ---------------------------------------------------------------- bind vertex buffers
\* Most commands recorded into one builder.
MaxCommands == 3

\* Most buffers bound by one command.
MaxBuffers == 3

\* An UnsafeCommandBufferBuilder: its device and the vkCmdBindVertexBuffers
\* calls recorded into it, each with its first binding and its buffer count.
Builder(dev, commands) == [tag |-> "Builder", device |-> dev, commands |-> commands]

\* CmdBindVertexBuffers::new: the device of the first buffer and the raw
\* buffers, at least one.
CmdBindVertexBuffers(dev, n) == [device |-> dev, raw_buffers |-> n]

\* AddCommand<&CmdBindVertexBuffers>::add: vkCmdBindVertexBuffers on the
\* builder's command buffer, then Ok(self).
add(builder, command) ==
    [ok |-> TRUE,
     out |-> Builder(builder.device,
                     Append(builder.commands,
                            [first_binding |-> 0, count |-> command.raw_buffers]))]

\* An empty builder of some device.
InitCmd ==
    /\ state \in {Builder(dev, <<>>) : dev \in Devices}
    /\ future = [type |-> "none"]
    /\ owner = None
    /\ poisoned = FALSE
    /\ alive = FALSE
    /\ held = NoState
    /\ pc = [t \in Threads |-> "idle"]
    /\ log = <<>>
    /\ signalled = FALSE
    /\ prev_finished = FALSE
    /\ ev = Event("none", "None", "Ok", 0)

\* builder.add(&command) for a command built on buffers of some device.
Add ==
    /\ state.tag = "Builder"
    /\ Len(state.commands) < MaxCommands
    /\ \E dev \in Devices, n \in 1..MaxBuffers :
        \E r \in {add(state, CmdBindVertexBuffers(dev, n))} :
            /\ state' = IF r.ok THEN r.out ELSE state
            /\ ev' = [Event("add", "Builder", IF r.ok THEN "Ok" ELSE "Err",
                            Len(r.out.commands) - Len(state.commands))
                      EXCEPT !.val = CmdBindVertexBuffers(dev, n)]
    /\ UNCHANGED <<owner, poisoned, alive, held, pc, log, signalled, prev_finished, future>>

NextCmd == Add

SpecCmd == InitCmd /\ [][NextCmd]_vars

\* ---------------------------------------------------------------- properties
\* The calls that run flush_impl and return to their caller.
FlushOps == {"flush", "join_flush", "build_submission"}

\* The submits in the log made by flush_impl itself.
OwnSubmits == {i \in 1..Len(log) : log[i].by = "fence_signal"}

\* The accepted submits that carry the node's fence.
AcceptedFence == {i \in 1..Len(log) : log[i].fence /\ log[i].ok}

\* The accepted submits with which flush_impl completes a flush: the last
\* step of each arm, a command-buffer builder.
AcceptedFinal == {i \in OwnSubmits : log[i].what = "cb" /\ log[i].ok}

\* C1: every return from flush or build_submission, Ok or Err, leaves the
\* node in a state other than Poisonned.
C1_ReturnsNotPoisonned ==
    (ev.op \in {"flush", "build_submission"} /\ ev.ret \in {"Ok", "Err", "OkEmpty"})
        => state.tag # "Poisonned"

\* C2: whatever accumulator the predecessor returned, the last submission of
\* the flush that made the node Flushed carries the node's fence.
C2_FlushedCarriesFence ==
    state.tag = "Flushed"
        => /\ log # <<>>
           /\ log[Len(log)].by = "fence_signal"
           /\ log[Len(log)].ok
           /\ log[Len(log)].fence

\* C3: build_submission returns Ok(Empty) only after a submission carrying
\* the fence was accepted by the device and the fence was seen signalled.
C3_OkEmptyOnlyAfterSignalled ==
    (ev.op = "build_submission" /\ ev.ret = "OkEmpty")
        => (signalled /\ AcceptedFence # {})

\* C4 as stated: the flush() calls made so far, on the node or on a join over
\* it, have performed at most one device submission in total.
C4_AtMostOneSubmission == Len(log) <= 1

\* C4 amended: the device accepts at most one final submission of the node,
\* and a flush() call that finds the node Flushed, Cleaned or Poisonned
\* returns Ok without any device submission.
C4_OneFlushThenNoOps ==
    /\ Cardinality(AcceptedFinal) <= 1
    /\ (ev.op \in {"flush", "join_flush"} /\ ev.from \in {"Flushed", "Cleaned", "Poisonned"})
            => (ev.n = 0 /\ ev.ret \in {"Ok", "First"})

\* C4 witness: flush() was called again on a node that an earlier flush of
\* two submissions had made Flushed.
C4_Witness ==
    /\ ev.op \in {"flush", "join_flush"}
    /\ ev.from = "Flushed"
    /\ ev.n = 0
    /\ state.tag = "Flushed"
    /\ Len(log) >= 2

\* The last submit in the log.
LastSubmit == log[Len(log)]

\* The last call ran flush_impl and its last submit, made by flush_impl
\* itself, was rejected by the device.
OwnSubmitFailed ==
    /\ ev.op \in FlushOps
    /\ ev.n >= 1
    /\ LastSubmit.by = "fence_signal"
    /\ ~LastSubmit.ok

\* The rejected submit is the fence-only submit that follows a present the
\* device accepted, in this call or in an earlier one.
FailedAfterPresent ==
    /\ LastSubmit.what = "cb"
    /\ \/ ev.from = "PartiallyFlushed"
       \/ /\ ev.n >= 2
          /\ log[Len(log) - 1].by = "fence_signal"
          /\ log[Len(log) - 1].what = "present"
          /\ log[Len(log) - 1].ok

\* C5: when a submit of flush_impl is rejected, the call returns the error
\* and the node holds the same predecessor and fence, PartiallyFlushed when
\* the rejected submit follows an accepted present, Pending otherwise.
C5_FailedSubmitKeepsNode ==
    OwnSubmitFailed
        => /\ ev.ret = "Err"
           /\ state = IF FailedAfterPresent THEN PartiallyFlushed(future, TheFence)
                      ELSE Pending(future, TheFence)

\* C5 witness: a flush whose present was accepted and whose fence-only
\* submit was rejected has returned the error.
C5_Witness ==
    /\ OwnSubmitFailed
    /\ ev.op = "flush"
    /\ ev.n = 2
    /\ state.tag = "PartiallyFlushed"

\* C6: no present is submitted by the node after the device accepted its
\* present, and a flush of a PartiallyFlushed node that submits makes one
\* submit, the fence-only one.
C6_PresentAcceptedOnce ==
    /\ \A i \in OwnSubmits : \A j \in OwnSubmits :
            (i < j /\ log[i].what = "present" /\ log[i].ok) => log[j].what # "present"
    /\ (ev.op \in FlushOps \cup {"drop"} /\ ev.from = "PartiallyFlushed" /\ ev.n > 0)
            => /\ ev.n = 1
               /\ LastSubmit.by = "fence_signal"
               /\ LastSubmit.what = "cb"
               /\ LastSubmit.src = {}
               /\ LastSubmit.fence

\* C6 witness: the retry of a PartiallyFlushed node made the node Flushed
\* with one submit.
C6_Witness ==
    /\ ev.op = "flush"
    /\ ev.from = "PartiallyFlushed"
    /\ ev.n = 1
    /\ state.tag = "Flushed"

\* The node was built on a join of two futures that each end in a present,
\* the first on Q1 and the second on Q2.
JoinOfPresents ==
    /\ future.type = "join"
    /\ future.first.kind = "QueuePresent"
    /\ future.first.queue = "Q1"
    /\ future.second.kind = "QueuePresent"
    /\ future.second.queue = "Q2"

\* C7: on a join of two presents, a rejected fence-only submit leaves the
\* node PartiallyFlushed, and no present the device accepted is submitted a
\* second time.
C7_JoinOfPresentsPartial ==
    JoinOfPresents
        => /\ (OwnSubmitFailed /\ ev.op = "flush") => state.tag = "PartiallyFlushed"
           /\ \A i \in 1..Len(log) : \A j \in 1..Len(log) :
                (i < j /\ log[i].what = "present" /\ log[i].ok)
                    => ~(log[j].what = "present" /\ log[j].src = log[i].src)

\* The transitions of the state machine.
Transitions ==
    {<<"Pending", "Flushed">>, <<"Pending", "PartiallyFlushed">>,
     <<"PartiallyFlushed", "Flushed">>, <<"Flushed", "Cleaned">>}

\* C8: a call on a live node that does not panic leaves the state as it was
\* or moves it along one of the four transitions.
C8_OnlyGraphTransitions ==
    (alive /\ ~poisoned /\ ev.op # "then_signal_fence")
        => (state.tag = ev.from \/ <<ev.from, state.tag>> \in Transitions)

\* C9: with the node shared by several threads, the device accepts at most
\* one submission that carries its fence and at most one final submission,
\* a thread waiting inside build_submission holds the lock on a Flushed
\* node, and build_submission returns nothing but Ok(Empty) or an error.
C9_SharedNodeSubmitsOnce ==
    /\ Cardinality(AcceptedFence) <= 1
    /\ Cardinality(AcceptedFinal) <= 1
    /\ \A t \in Threads : pc[t] = "bs_wait" => (owner = t /\ state.tag = "Flushed")
    /\ ev.op = "build_submission" => ev.ret \in {"OkEmpty", "Err", "Panic", "Waiting"}

\* C9 witness: a build_submission on a clone returned Ok(Empty) without a
\* submit of its own, the node having been flushed by an earlier call.
C9_Witness ==
    /\ ev.op = "build_submission"
    /\ ev.ret = "OkEmpty"
    /\ ev.from = "Flushed"
    /\ state.tag = "Flushed"
    /\ Cardinality(AcceptedFence) = 1

\* C10: over the node's whole life the device accepts at most one
\* submission that carries its fence, and flush_impl never submits a builder
\* on which a fence was already set.
C10_FenceAttachedOnce ==
    /\ Cardinality(AcceptedFence) <= 1
    /\ \A i \in OwnSubmits : ~log[i].has_fence

\* C10 witness: the node was dropped after a rejected and then an accepted
\* submission that carried its fence.
C10_Witness ==
    /\ ~alive
    /\ Cardinality(AcceptedFence) = 1
    /\ \E i \in 1..Len(log) : log[i].fence /\ ~log[i].ok

\* ---------------------------------------------------------------- properties of a join
\* The last call was JoinFuture::build_submission and both children's
\* build_submission returned Ok.
JoinMerged ==
    /\ ev.op = "join_build_submission"
    /\ ~ev.val.e1
    /\ ~ev.val.e2

\* The accumulators the two children returned to the last call.
FirstAcc == LeafBuildSubmission(future.first, 1, FALSE).acc

SecondAcc == LeafBuildSubmission(future.second, 2, FALSE).acc

\* The submits the last call made.
CallSubmits == SubSeq(log, Len(log) - ev.n + 1, Len(log))

\* C11: when one child's accumulator is Empty, build_submission returns Ok
\* with the other child's accumulator, whatever its variant, and makes no
\* device submission.
C11_EmptyIsIdentity ==
    JoinMerged
        => /\ FirstAcc.kind = "Empty"
                => (ev.ret = "Ok" /\ ev.val.acc = SecondAcc /\ ev.n = 0)
           /\ SecondAcc.kind = "Empty"
                => (ev.ret = "Ok" /\ ev.val.acc = FirstAcc /\ ev.n = 0)

\* C11 witness: an Empty first child merged with a present.
C11_Witness ==
    /\ JoinMerged
    /\ FirstAcc.kind = "Empty"
    /\ SecondAcc.kind = "QueuePresent"
    /\ ev.val.acc.kind = "QueuePresent"

\* The pairs of non-Empty variants the merge table has a cell for.
TablePairs ==
    {<<"SemaphoresWait", "SemaphoresWait">>, <<"SemaphoresWait", "CommandBuffer">>,
     <<"SemaphoresWait", "QueuePresent">>, <<"CommandBuffer", "SemaphoresWait">>,
     <<"QueuePresent", "SemaphoresWait">>, <<"CommandBuffer", "CommandBuffer">>,
     <<"QueuePresent", "QueuePresent">>}

\* The table's result for accumulators a and b: its variant and the work it holds.
TableResult(a, b) ==
    CASE a.kind = "SemaphoresWait" /\ b.kind = "SemaphoresWait" ->
            [kind |-> "SemaphoresWait", src |-> a.src \cup b.src]
      [] a.kind = "SemaphoresWait" /\ b.kind # "SemaphoresWait" ->
            [kind |-> "SemaphoresWait", src |-> a.src]
      [] a.kind # "SemaphoresWait" /\ b.kind = "SemaphoresWait" ->
            [kind |-> "SemaphoresWait", src |-> b.src]
      [] a.kind = "CommandBuffer" /\ b.kind = "CommandBuffer" ->
            [kind |-> "CommandBuffer", src |-> a.src \cup b.src]
      [] a.kind = "QueuePresent" /\ b.kind = "QueuePresent" ->
            [kind |-> "Empty", src |-> {}]

\* One eager submit of the table: the child's accumulator on the child's queue.
TableSubmit(child, acc) ==
    [what |-> IF acc.kind = "QueuePresent" THEN "present" ELSE "cb",
     queue |-> child.queue, src |-> acc.src]

\* The table's eager submits for the children of the join, in order.
TableSubmits ==
    CASE FirstAcc.kind = "SemaphoresWait" /\ SecondAcc.kind = "SemaphoresWait" -> <<>>
      [] FirstAcc.kind = "SemaphoresWait" /\ SecondAcc.kind # "SemaphoresWait" ->
            <<TableSubmit(future.second, SecondAcc)>>
      [] FirstAcc.kind # "SemaphoresWait" /\ SecondAcc.kind = "SemaphoresWait" ->
            <<TableSubmit(future.first, FirstAcc)>>
      [] FirstAcc.kind = "CommandBuffer" /\ SecondAcc.kind = "CommandBuffer" -> <<>>
      [] FirstAcc.kind = "QueuePresent" /\ SecondAcc.kind = "QueuePresent" ->
            <<TableSubmit(future.first, FirstAcc), TableSubmit(future.second, SecondAcc)>>

\* Submit number i of the last call is submit number i of the table.
IsTableSubmit(i) ==
    /\ CallSubmits[i].by = "join"
    /\ CallSubmits[i].what = TableSubmits[i].what
    /\ CallSubmits[i].queue = TableSubmits[i].queue
    /\ CallSubmits[i].src = TableSubmits[i].src

\* C12: for a pair of variants of the table, build_submission does not
\* panic; when it returns Ok it returns the table's result after exactly the
\* table's submits, all accepted, each on the queue of the child whose
\* accumulator it is; when it returns Err it stopped at a rejected submit of
\* the table.
C12_MergeTable ==
    (JoinMerged /\ <<FirstAcc.kind, SecondAcc.kind>> \in TablePairs)
        => /\ ev.ret \in {"Ok", "Err"}
           /\ ev.n <= Len(TableSubmits)
           /\ \A i \in 1..ev.n : IsTableSubmit(i)
           /\ ev.ret = "Ok"
                => /\ ev.n = Len(TableSubmits)
                   /\ \A i \in 1..ev.n : CallSubmits[i].ok
                   /\ ev.val.acc.kind = TableResult(FirstAcc, SecondAcc).kind
                   /\ ev.val.acc.src = TableResult(FirstAcc, SecondAcc).src
           /\ ev.ret = "Err"
                => /\ ev.n >= 1
                   /\ ~CallSubmits[ev.n].ok
                   /\ \A i \in 1..(ev.n - 1) : CallSubmits[i].ok

\* C12 witness: two presents on different queues were merged, the first
\* submitted on Q1 and then the second on Q2.
C12_Witness ==
    /\ JoinMerged
    /\ FirstAcc.kind = "QueuePresent"
    /\ SecondAcc.kind = "QueuePresent"
    /\ ev.ret = "Ok"
    /\ ev.n = 2
    /\ CallSubmits[1].queue = "Q1"
    /\ CallSubmits[2].queue = "Q2"
    /\ ev.val.acc.kind = "Empty"

\* C13: a CommandBuffer accumulator joined with a QueuePresent accumulator, in
\* either order, makes build_submission return an error with nothing submitted.
C13_UnspecifiedCellIsError ==
    (JoinMerged /\ {FirstAcc.kind, SecondAcc.kind} = {"CommandBuffer", "QueuePresent"})
        => (ev.ret = "Err" /\ ev.n = 0)

\* The last call was an access check on the join.
JoinChecked == ev.op = "join_check_access"

\* Both children answered Ok to the last access check.
BothOk == ev.val.first.ok /\ ev.val.second.ok

\* C14: an access check on the join that returns gives the Ok answer when
\* exactly one child answered Ok, Err when both answered Err, and Ok with the
\* field-wise union of the stages and of the access flags when both answered
\* Ok with usage records; it is Err exactly when both children answered Err.
C14_AccessCombination ==
    (JoinChecked /\ ev.ret # "Panic")
        => LET f == ev.val.first
               g == ev.val.second
               v == ev.val.val
           IN  /\ (f.ok /\ ~g.ok) => v = f
               /\ (~f.ok /\ g.ok) => v = g
               /\ (~f.ok /\ ~g.ok) => v = AccessErr
               /\ (f.ok /\ g.ok /\ f.some /\ g.some)
                    => /\ v.ok
                       /\ v.some
                       /\ \A x \in StageFields : v.stages[x] = (f.stages[x] \/ g.stages[x])
                       /\ \A x \in AccessFields : v.access[x] = (f.access[x] \/ g.access[x])
               /\ ~v.ok <=> (~f.ok /\ ~g.ok)
               /\ (ev.ret = "Ok") = v.ok

\* C14 witness: two different usage records were combined into their union.
C14_Witness ==
    /\ JoinChecked
    /\ ev.ret = "Ok"
    /\ BothOk
    /\ ev.val.first.some
    /\ ev.val.second.some
    /\ ev.val.first # ev.val.second
    /\ \A x \in StageFields : ev.val.val.stages[x]

\* C15 as stated: an exclusive access check for which both children answer
\* Ok triggers the assertion and returns no value.
C15_ExclusiveBothOkPanics ==
    (JoinChecked /\ ev.val.exclusive /\ BothOk) => ev.ret = "Panic"

\* C15: in a build with debug assertions an exclusive access check for which
\* both children answer Ok panics, and that is the only access check that
\* panics; in a build without them the same check returns Ok.
C15_ExclusiveBothOkDebugPanics ==
    JoinChecked
        => /\ (ev.ret = "Panic") <=> (ev.val.debug /\ ev.val.exclusive /\ BothOk)
           /\ (~ev.val.debug /\ ev.val.exclusive /\ BothOk) => ev.ret = "Ok"

\* C15 witness: the debug assertion fired on an exclusive check with two Ok
\* answers.
C15_Witness ==
    /\ JoinChecked
    /\ ev.val.exclusive
    /\ ev.val.debug
    /\ BothOk
    /\ ev.ret = "Panic"

\* C16: queue() is the common queue when both children report queues that
\* are the same; otherwise, when a child allows a queue change, it is the
\* queue of the other child of such a child; queue_change_allowed() is the
\* conjunction of the children's.
C16_QueueSelection ==
    ev.op = "join_queue"
        => LET q1 == future.first.queue
               q2 == future.second.queue
               c1 == future.first.qca
               c2 == future.second.qca
               same == q1 # None /\ q2 # None /\ q1 = q2
           IN  /\ same => ev.val.queue = q1
               /\ (~same /\ (c1 \/ c2))
                    => ((c1 /\ ev.val.queue = q2) \/ (c2 /\ ev.val.queue = q1))
               /\ ev.val.qca = (c1 /\ c2)

\* C16 witness: the children are on different queues, only the second
\* allows a change, and the join reports the first child's queue.
C16_Witness ==
    /\ ev.op = "join_queue"
    /\ future.first.queue = "Q1"
    /\ future.second.queue = "Q2"
    /\ ~future.first.qca
    /\ future.second.qca
    /\ ev.val.queue = "Q1"
    /\ ~ev.val.qca

\* join() accepts the two futures: same device and, when neither allows a
\* queue change, the same queue.
JoinLegal(first, second) ==
    /\ first.device = second.device
    /\ (~first.qca /\ ~second.qca) => first.queue = second.queue

\* C17: a JoinFuture exists only for two futures join() accepts; for any
\* other two futures the call of join() panicked and built nothing.
C17_JoinOnlyWhenLegal ==
    /\ future.type = "join" => JoinLegal(future.first, future.second)
    /\ (future.type = "args" /\ ev.op = "join")
            => (ev.ret = "Panic" /\ ~JoinLegal(future.first, future.second))
    /\ (ev.op = "join" /\ ev.ret = "Ok") => future.type = "join"

\* C17 witness: join() panicked on two futures of one device that disallow
\* a queue change and are on different queues.
C17_Witness ==
    /\ ev.op = "join"
    /\ ev.ret = "Panic"
    /\ future.type = "args"
    /\ future.first.device = future.second.device
    /\ ~future.first.qca
    /\ ~future.second.qca
    /\ future.first.queue # future.second.queue

\* ---------------------------------------------------------------- properties of the queues
\* The leaves the fence-signal node is built on, by their number: the
\* predecessor itself, or the two children of the join.
BuiltOn ==
    IF future.type = "join" THEN [i \in {1, 2} |-> IF i = 1 THEN future.first ELSE future.second]
    ELSE [i \in {1} |-> future]

\* The leaves among them that disallow a queue change and report a queue.
Pinned == {i \in DOMAIN BuiltOn : ~BuiltOn[i].qca /\ BuiltOn[i].queue # None}

\* C18 as stated: every device submission made by the join or by the
\* fence-signal node built on a leaf that disallows a queue change targets
\* that leaf's queue.
C18_AllSubmitsOnPinnedQueue ==
    future.type \in {"leaf", "join"}
        => \A i \in Pinned : \A k \in 1..Len(log) : log[k].queue = BuiltOn[i].queue

\* C18: every submission the fence-signal node makes itself targets the
\* queue of each leaf that disallows a queue change, and an eager submit of
\* the join targets the queue of the child whose accumulator it submits.
C18_OwnSubmitsOnPinnedQueue ==
    future.type \in {"leaf", "join"}
        => \A k \in 1..Len(log) :
            /\ log[k].by = "fence_signal"
                    => \A i \in Pinned : log[k].queue = BuiltOn[i].queue
            /\ log[k].by = "join"
                    => \A i \in DOMAIN BuiltOn :
                            i \in log[k].src => log[k].queue = BuiltOn[i].queue

\* C18 witness: the join submitted its second child's accumulator on Q2 and
\* the fence-signal node then submitted on Q1, the queue of the first child,
\* which disallows a queue change.
C18_Witness ==
    /\ future.type = "join"
    /\ 1 \in Pinned
    /\ future.first.queue = "Q1"
    /\ Len(log) >= 2
    /\ log[1].by = "join"
    /\ log[1].queue = "Q2"
    /\ log[1].ok
    /\ log[2].by = "fence_signal"
    /\ log[2].queue = "Q1"

\* ---------------------------------------------------------------- properties of the lock and of Drop
\* C19: no thread is ever held up inside cleanup_finished.
C19_CleanupNeverBlocks == \A t \in Threads : pc[t] # "cleanup_lock"


\* C20: the step that starts Drop runs the flush and swaps Cleaned in; it
\* goes on to wait exactly when it holds a Flushed state, and otherwise
\* releases the predecessor without signal_finished. The steps after it make
\* no device submission, and signal_finished reaches the predecessor only
\* from a Drop that held a Flushed state and saw the fence signalled.
C20_DropOrder ==
    [][/\ (alive /\ ~alive')
            => /\ ev'.op = "drop"
               /\ (ev'.ret = "Waiting") <=> (held'.tag = "Flushed")
               /\ ev'.ret = "Unit" => held' = NoState
               /\ prev_finished' = prev_finished
       /\ (~alive /\ ~alive')
            => /\ log' = log
               /\ (prev_finished' /\ ~prev_finished)
                    => (signalled /\ held.tag = "Flushed" /\ ev'.ret = "Unit")
               /\ held' \in {held, NoState}]_vars

\* C20 witness: a Drop whose flush was rejected by the device has released
\* the predecessor without signal_finished.
C20_Witness ==
    /\ ~alive
    /\ ev.op = "drop"
    /\ ev.ret = "Unit"
    /\ ev.from \in {"Pending", "PartiallyFlushed"}
    /\ ev.n >= 1
    /\ ~log[Len(log)].ok
    /\ held = NoState
    /\ ~prev_finished


\* ---------------------------------------------------------------- properties of the construction
\* C21: then_signal_fence_and_flush on the identity future does not panic
\* and, when the device accepts what it is handed, leaves a Flushed node
\* after one submission that carries the fence and no command buffer.
C21_IdentityFlushes ==
    (future = Identity /\ ev.op = "then_signal_fence_and_flush")
        => /\ ev.ret # "Panic"
           /\ (\A k \in 1..Len(log) : log[k].ok)
                => /\ state.tag = "Flushed"
                   /\ Len(log) = 1
                   /\ log[1].fence
                   /\ log[1].src = {}

\* C22: the node answers queue() = None and queue_change_allowed() = true
\* in every state, and then_execute_same_queue and then_signal_fence applied
\* to it panic instead of producing a node.
C22_FenceNodeHasNoQueue ==
    /\ ev.op = "queue" => (ev.val.queue = None /\ ev.val.qca)
    /\ ev.op \in {"then_execute_same_queue", "fence_then_signal_fence"} => ev.ret = "Panic"

\* C22 witness: then_execute_same_queue panicked on a Flushed node whose
\* predecessor is on a queue.
C22_Witness ==
    /\ ev.op = "then_execute_same_queue"
    /\ ev.ret = "Panic"
    /\ state.tag = "Flushed"
    /\ QueueOf(state.prev) = "Q1"


\* C30: when then_signal_fence_and_flush has returned Err, the device has
\* accepted no submission that carries the fence of the node it built, and
\* the call did not wait for that fence.
C30_ErrMeansNeverAccepted ==
    (ev.op = "then_signal_fence_and_flush" /\ ev.ret = "Err")
        => (AcceptedFence = {} /\ ev.from # "Flushed")


\* ---------------------------------------------------------------- properties of commands and flags
\* C23: add returns Ok only for a command whose buffers are of the
\* builder's device; for another device it returns an error and records no
\* command.
C23_AddValidatesDevice ==
    ev.op = "add"
        => /\ ev.ret = "Ok" => ev.val.device = state.device
           /\ ev.val.device # state.device => (ev.ret = "Err" /\ ev.n = 0)

\* C24: | is commutative, associative and idempotent and none() is its
\* identity, on PipelineStages and on AccessFlagBits, field by field.
C24_BitOrLaws ==
    ev.op = "bitor"
        => \A f \in state.fields :
            /\ ev.val.xy[f] = ev.val.yx[f]
            /\ ev.val.xy_z[f] = ev.val.x_yz[f]
            /\ ev.val.xx[f] = state.x[f]
            /\ ev.val.x_none[f] = state.x[f]
            /\ ev.val.none_x[f] = state.x[f]

\* C24 witness: | was applied to two access flag values neither of which
\* contains the other, and to a third that is not none().
C24_Witness ==
    /\ ev.op = "bitor"
    /\ state.fields = AccessFields
    /\ ev.val.xy # state.x
    /\ ev.val.xy # state.y
    /\ state.z # none(AccessFields)


\* ---------------------------------------------------------------- properties of cleanup and access checks
\* C25: a call of cleanup_finished makes a Flushed node whose fence is
\* signalled Cleaned, which holds neither predecessor nor fence; in every
\* other case it leaves the state as it is; it reports nothing and submits
\* nothing.
C25_CleanupFrame ==
    [][(ev'.op = "cleanup_finished" /\ signalled' = signalled)
            => /\ state' = IF state.tag = "Flushed" /\ signalled THEN Cleaned ELSE state
               /\ ev'.ret = "Unit"
               /\ log' = log
               /\ poisoned' = poisoned
               /\ prev_finished' = prev_finished]_vars

\* C25 witness: cleanup_finished found the node Flushed with its fence
\* signalled and left it Cleaned.
C25_Witness ==
    /\ alive
    /\ ev.op = "cleanup_finished"
    /\ ev.from = "Flushed"
    /\ state = Cleaned
    /\ signalled

\* C29: a node that cleanup_finished has made Cleaned, releasing the
\* predecessor after the fence was seen signalled, has called
\* signal_finished on that predecessor.
C29_SignalFinishedBeforeRelease ==
    (ev.op = "cleanup_finished" /\ ev.from = "Flushed" /\ state = Cleaned)
        => prev_finished


\* ---------------------------------------------------------------- properties of a join's submits
\* C26: when the device rejects an eager submit of a call of
\* JoinFuture::build_submission, the call returns the error with no
\* accumulator and the rejected submit is the last one of the call; for two
\* QueuePresent children whose first submit is rejected, the second child's
\* accumulator is not submitted.
C26_EagerFailureReturns ==
    (JoinMerged /\ \E i \in 1..Len(CallSubmits) : ~CallSubmits[i].ok)
        => /\ ev.ret = "Err"
           /\ ev.val.acc = EmptyAcc
           /\ \A i \in 1..Len(CallSubmits) : ~CallSubmits[i].ok => i = Len(CallSubmits)
           /\ (FirstAcc.kind = "QueuePresent" /\ SecondAcc.kind = "QueuePresent"
                    /\ ~CallSubmits[1].ok)
                => /\ ev.n = 1
                   /\ CallSubmits[1].src = {1}

\* C26 witness: a join of two QueuePresent children whose first eager
\* submit the device rejected.
C26_Witness ==
    /\ JoinMerged
    /\ FirstAcc.kind = "QueuePresent"
    /\ SecondAcc.kind = "QueuePresent"
    /\ ev.ret = "Err"
    /\ ev.n = 1
    /\ ~CallSubmits[1].ok
    /\ CallSubmits[1].src = {1}

\* C27: when JoinFuture::build_submission merges two CommandBuffer
\* accumulators into one, both children are on the same queue.
C27_MergeNeedsSameQueue ==
    (JoinMerged /\ ev.ret = "Ok"
        /\ FirstAcc.kind = "CommandBuffer" /\ SecondAcc.kind = "CommandBuffer"
        /\ ev.val.acc.kind = "CommandBuffer")
        => future.first.queue = future.second.queue


\* ---------------------------------------------------------------- properties of the node's access checks
\* C28: check_buffer_access and check_image_access on a fence-signal node
\* return what the predecessor's check returns (a panic of the predecessor
\* included) while the node is Pending, PartiallyFlushed or Flushed, return
\* Err(()) when it is Cleaned or Poisonned, and leave the node's state and
\* the device alone.
C28_AccessDelegated ==
    [][ev'.op = "check_access"
            => /\ state' = state
               /\ log' = log
               /\ state.tag \in {"Pending", "PartiallyFlushed", "Flushed"}
                    => /\ (ev'.ret = "Panic") <=> ev'.val.answer.panic
                       /\ ~ev'.val.answer.panic
                            => /\ ev'.val.val = ev'.val.answer.val
                               /\ (ev'.ret = "Ok") <=> ev'.val.answer.val.ok
               /\ state.tag \in {"Cleaned", "Poisonned"}
                    => (ev'.ret = "Err" /\ ev'.val.val = AccessErr)]_vars

\* C28 witness: a check on a Flushed node returned the predecessor's
\* Ok(Some(..)), and a check on a Cleaned node returned Err(()).
C28_Witness ==
    /\ ev.op = "check_access"
    /\ ev.from = "Flushed"
    /\ state.tag = "Flushed"
    /\ ev.ret = "Ok"
    /\ ev.val.val.some
    /\ ev.val.val = ev.val.answer.val


\* ---------------------------------------------------------------- properties of a device that signals
\* C31: on a device that eventually signals the fence of every accepted
\* submission carrying one, a node that reaches Flushed eventually has its
\* fence signalled, whichever accumulator its predecessor returned.
C31_FlushedEventuallySignalled ==
    (state.tag = "Flushed") ~> signalled

====
